---- MODULE Spec2Model ----
(***************************************************************************)
(* Model of src/engine/memory.rs: the zone allocator draft.                *)
(*                                                                         *)
(* The program's state is the set of Block values that init and allocate   *)
(* have produced.  A Block carries next/prev links (Rc<RefCell<Option>>),  *)
(* a BlockMetaData (tag, size) and its own 64-byte data array.  The        *)
(* allocator type itself (MemoryAllocator) is a unit struct and holds no   *)
(* state.  Where a Block's data array lives in memory is chosen by the     *)
(* build, so the model places each Block in a nondeterministically chosen  *)
(* slot of the address space.                                              *)
(***************************************************************************)
EXTENDS Integers, Sequences, FiniteSets, TLC

\* ---------------------------------------------------------------- bounds
MaxBlocks == 3      \* Block values alive at once
MaxSlots  == 4      \* places in memory a Block value may occupy

\* request sizes tried by the callers (u8 values)
Sizes == {0, 1, 8, 16, 64, 100, 255}

\* ------------------------------------------------------------- Option<T>
None    == <<>>
Some(x) == <<x>>

\* -------------------------------------------------------------- PurgeTag
PuStatic     == 1
PuSound      == 2
PuMusic      == 3
PuLevel      == 50
PuLevlSpec   == 51
PuPurgeLevel == 100
PuCache      == 101

PurgeTag == {PuStatic, PuSound, PuMusic, PuLevel, PuLevlSpec,
             PuPurgeLevel, PuCache}

\* ----------------------------------------------------------------- Block
\* const SIZE: u8 = 64 in Block::new; also the length of Block::data
SIZE == 64

\* bytes one Block value occupies: two Rc pointers, the two metadata bytes
\* and the data array, rounded up to pointer alignment
BlockBytes == 88

\* the fields of the unit struct MemoryAllocator
MemoryAllocatorFields == {}

BlockMetaData_new(tag, sz) == [tag |-> tag, size |-> sz]

Block_new_short ==
    [next     |-> None,
     prev     |-> None,
     metadata |-> [tag |-> None, size |-> SIZE - 1],
     data     |-> [i \in 0..(SIZE - 1) |-> 0]]

Block_new ==
    [next     |-> None,
     prev     |-> None,
     metadata |-> [tag |-> None, size |-> SIZE],
     data     |-> [i \in 0..(SIZE - 1) |-> 0]]

size(b) == b.metadata.size

\* ------------------------------------------------------- MemoryAllocator
\* init and allocate as functions of the Block values alive before the
\* call: the Block values alive after it and the value returned
init == Block_new

\* a variant that links the fresh block behind the one passed in (through
\* the RefCell of `next`) without shrinking the latter
allocate_links(bs, block, sz) ==
    [blocks |-> [bs EXCEPT ![block].next = Some(Len(bs) + 1)],
     ret    |-> [Block_new EXCEPT !.prev = Some(block)]]

\* a variant that gives the fresh block the requested size
allocate_sized(bs, block, sz) ==
    [blocks |-> bs,
     ret    |-> [Block_new EXCEPT !.metadata = BlockMetaData_new(None, sz)]]

allocate(bs, block, sz) ==
    [blocks |-> bs,
     ret    |-> Block_new]

\* ----------------------------------------------------------------- state
VARIABLES
    blocks,     \* the Block values alive, in order of creation
    slot,       \* slot[i]: where in memory blocks[i] lives
    history     \* the calls made so far, each with its arguments and result

vars == <<blocks, slot, history>>

FreeSlots == (0..(MaxSlots - 1)) \ {slot[i] : i \in 1..Len(slot)}

\* address of data[0] of blocks[i], and of its last element
DataAddr(i) == slot[i] * BlockBytes
LastAddr(i) == DataAddr(i) + (SIZE - 1)

Init ==
    /\ blocks  = <<>>
    /\ slot    = <<>>
    /\ history = <<>>

\* let block = MemoryAllocator::init();
CallInit ==
    /\ Len(blocks) < MaxBlocks
    /\ \E s \in FreeSlots :
         /\ blocks'  = Append(blocks, init)
         /\ slot'    = Append(slot, s)
         /\ history' = Append(history,
                          [op |-> "init", block |-> 0, size |-> 0,
                           ret |-> Len(blocks) + 1, result |-> "Block",
                           pre |-> blocks])

\* let block_n = MemoryAllocator::allocate(&block, size);
CallAllocate ==
    /\ Len(blocks) < MaxBlocks
    /\ \E block \in 1..Len(blocks), sz \in Sizes, s \in FreeSlots :
         LET r == allocate(blocks, block, sz) IN
         /\ blocks'  = Append(r.blocks, r.ret)
         /\ slot'    = Append(slot, s)
         /\ history' = Append(history,
                          [op |-> "allocate", block |-> block, size |-> sz,
                           ret |-> Len(blocks) + 1, result |-> "Block",
                           pre |-> blocks])

Next == CallInit \/ CallAllocate

Spec == Init /\ [][Next]_vars

\* ------------------------------------------------------- the block list
\* the doubly linked list a block belongs to: back along prev to the head,
\* then forward along next
RECURSIVE ListHead(_, _, _)
ListHead(bs, b, fuel) ==
    IF fuel = 0 \/ bs[b].prev = None THEN b
    ELSE ListHead(bs, bs[b].prev[1], fuel - 1)

RECURSIVE Chain(_, _, _)
Chain(bs, b, fuel) ==
    IF fuel = 0 THEN <<>>
    ELSE IF bs[b].next = None THEN <<b>>
    ELSE <<b>> \o Chain(bs, bs[b].next[1], fuel - 1)

ListOf(bs, b) == Chain(bs, ListHead(bs, b, Len(bs)), Len(bs))

RECURSIVE SumSizes(_, _)
SumSizes(bs, l) ==
    IF l = <<>> THEN 0 ELSE size(bs[l[1]]) + SumSizes(bs, Tail(l))

\* ------------------------------------------------------------ the calls
Called == Len(history) > 0
Last   == history[Len(history)]

\* sum of the sizes requested from block b so far
RECURSIVE Requested(_, _)
Requested(h, b) ==
    IF h = <<>> THEN 0
    ELSE (IF h[1].op = "allocate" /\ h[1].block = b THEN h[1].size ELSE 0)
         + Requested(Tail(h), b)

FromInit(b) == history[b].op = "init"

\* the requests a test makes of the first block: 16, then 8
TestFirstRequest == 16

\* the largest "minimum useful remainder" under which the first request of
\* the test still splits the 64-byte block (64 > 16 + t)
MaxMinRemainder == SIZE - TestFirstRequest - 1

\* the payload of blocks[i] as a set of addresses
Payload(i) == DataAddr(i)..(DataAddr(i) + size(blocks[i]) - 1)

\* the blocks of list l lie back to back from the start of the head's data
Contiguous(bs, l) ==
    \A i \in 1..Len(l) :
        DataAddr(l[i]) = DataAddr(l[1]) + SumSizes(bs, SubSeq(l, 1, i - 1))

\* the arena of a list is the data array of its head
ArenaCapacity(bs, l) == Cardinality(DOMAIN bs[l[1]].data)

\* ================================================================ claims

C2_SplitSizes ==
    (Called /\ Last.op = "allocate" /\ FromInit(Last.block)
            /\ Requested(history, Last.block) < SIZE)
    => /\ size(blocks[Last.ret]) = Last.size
       /\ size(blocks[Last.block]) = SIZE - Requested(history, Last.block)

C6_SplitMinimality ==
    (Called /\ Last.op = "allocate" /\ Last.result = "Block")
    => /\ size(blocks[Last.ret]) <= Last.size + MaxMinRemainder
       /\ (Last.size + MaxMinRemainder < size(Last.pre[Last.block])
             => size(blocks[Last.ret]) < size(Last.pre[Last.block]))

\* C8 (as stated): when nothing is evictable and no free block is as large
\* as the request, allocate returns OutOfMemory and the block list is the
\* same before and after.
C8_OutOfMemory ==
    (/\ Called
     /\ Last.op = "allocate"
     /\ \A i \in 1..Len(Last.pre) :
            /\ Last.pre[i].metadata.tag = None
            /\ size(Last.pre[i]) < Last.size)
    => /\ Last.result = "OutOfMemory"
       /\ SubSeq(blocks, 1, Len(Last.pre)) = Last.pre
       /\ ListOf(blocks, Last.block) = ListOf(Last.pre, Last.block)

\* C10 (as stated): after allocating a second block out of the first, the
\* payloads do not overlap, the last byte of the first block lies below the
\* first byte of the second, and in every list each block ends exactly where
\* its successor begins.
C10_AddressOrder ==
    (Called /\ Last.op = "allocate" /\ FromInit(Last.block))
    => /\ Payload(Last.block) \cap Payload(Last.ret) = {}
       /\ LastAddr(Last.block) < DataAddr(Last.ret)
       /\ \A b \in 1..Len(blocks) :
            LET l == ListOf(blocks, b) IN
            \A i \in 1..(Len(l) - 1) :
                DataAddr(l[i]) + size(blocks[l[i]]) = DataAddr(l[i + 1])

\* ------------------------------------------- PurgeTag::try_from(value: u8)
MaxCalls == 1       \* try_from calls made in one run

U8 == 0..255

Ok(x) == [ok |-> TRUE, val |-> x]
Err   == [ok |-> FALSE, val |-> "()"]

\* the variants by name
Variants == {"PuStatic", "PuSound", "PuMusic", "PuLevel", "PuLevlSpec",
             "PuPurgeLevel", "PuCache"}

\* the discriminant the enum declaration gives a variant (variant as u8)
Discriminant(variant) ==
    CASE variant = "PuStatic"     -> PuStatic
      [] variant = "PuSound"      -> PuSound
      [] variant = "PuMusic"      -> PuMusic
      [] variant = "PuLevel"      -> PuLevel
      [] variant = "PuLevlSpec"   -> PuLevlSpec
      [] variant = "PuPurgeLevel" -> PuPurgeLevel
      [] variant = "PuCache"      -> PuCache

\* a variant of try_from with the two level arms exchanged
try_from_swapped(value) ==
    CASE value = 1   -> Ok("PuStatic")
      [] value = 2   -> Ok("PuSound")
      [] value = 3   -> Ok("PuMusic")
      [] value = 50  -> Ok("PuLevlSpec")
      [] value = 51  -> Ok("PuLevel")
      [] value = 100 -> Ok("PuPurgeLevel")
      [] value = 101 -> Ok("PuCache")
      [] OTHER       -> Err

try_from(value) ==
    CASE value = 1   -> Ok("PuStatic")
      [] value = 2   -> Ok("PuSound")
      [] value = 3   -> Ok("PuMusic")
      [] value = 50  -> Ok("PuLevel")
      [] value = 51  -> Ok("PuLevlSpec")
      [] value = 100 -> Ok("PuPurgeLevel")
      [] value = 101 -> Ok("PuCache")
      [] OTHER       -> Err

\* PurgeTag::try_from(value) for any u8
CallTryFrom ==
    /\ Len(history) < MaxCalls
    /\ \E value \in U8 :
         history' = Append(history,
                       [op |-> "try_from", value |-> value,
                        result |-> try_from(value)])
    /\ UNCHANGED <<blocks, slot>>

NextTryFrom == CallTryFrom

SpecTryFrom == Init /\ [][NextTryFrom]_vars

\* C18: try_from(v) succeeds exactly for v in {1, 2, 3, 50, 51, 100, 101} and
\* gives Err(()) for every other u8; on success the variant's discriminant is
\* v again, so the tag is purgeable (>= 100) exactly when the variant is
\* PuPurgeLevel or PuCache.
C18_TryFrom ==
    (Called /\ Last.op = "try_from")
    => LET v == Last.value
           r == Last.result IN
       /\ r.ok <=> v \in {1, 2, 3, 50, 51, 100, 101}
       /\ ~r.ok => r = Err
       /\ r.ok => /\ r.val \in Variants
                  /\ Discriminant(r.val) = v
                  /\ (Discriminant(r.val) >= 100
                        <=> r.val \in {"PuPurgeLevel", "PuCache"})

\* try_from has returned the level-special variant for 51
C18_Witness ==
    /\ Called
    /\ Last.op = "try_from"
    /\ Last.value = 51
    /\ Last.result = Ok("PuLevlSpec")

====
